---- MODULE Spec2Model ----
(***************************************************************************)
(* Model of the desktop-automation core: the validating mouse tool         *)
(* functions (tools/mouse.ts), the request handlers that reach them        *)
(* (handlers/tools.ts) and the keysender screen provider                   *)
(* (providers/keysender/screen.ts).                                        *)
(***************************************************************************)
EXTENDS Integers, Sequences, FiniteSets, TLC

VARIABLES
  testEnv,     \* NODE_ENV === 'test' or VITEST is set
  provider,    \* what createAutomationProvider() returns: mouse backend, screen behaviour
  mcall,       \* the mouse call in progress
  mret,        \* what that call returned and the backend calls it made
  windows,     \* the windows getAllWindows() enumerates, with their native view
  workwindow,  \* handle of this.hardware.workwindow (0: none set)
  foreground,  \* handle of the desktop's foreground window (0: none)
  pending,     \* updateWindowPosition continuations waiting on their timer
  scall,       \* the screen operation in progress
  sret,        \* the envelope it returned
  slog,        \* the native calls it made
  ncmd,        \* number of screen operations dispatched so far
  binding,     \* this.GetSystemMetrics: not constructed yet, native, the dummy, or no provider
  dcall,       \* the metrics, screenshot or window-state request in progress
  dret         \* what it returned

mouseVars == <<testEnv, provider, mcall, mret>>
screenVars == <<windows, workwindow, foreground, pending, scall, sret, slog, ncmd>>
displayVars == <<binding, dcall, dret>>
vars == <<testEnv, provider, mcall, mret,
          windows, workwindow, foreground, pending, scall, sret, slog, ncmd,
          binding, dcall, dret>>

-----------------------------------------------------------------------------
(* Bounds of the model *)

\* width and height the screen provider reports when getScreenSize succeeds
ScreenW == 3
ScreenH == 2
\* longest window list enumerated
MaxWindows == 2
\* most updateWindowPosition continuations waiting at once
MaxPending == 1
\* most screen operations dispatched in one behaviour
MaxCommands == 2

(* Program constants *)

MAX_ALLOWED_COORDINATE == 10000
MAX_SCROLL_AMOUNT == 1000

-----------------------------------------------------------------------------
(* JavaScript values that reach the tool functions as loosely typed args *)

NumV(n) == [k |-> "number", n |-> n, s |-> ""]
NaNV == [k |-> "NaN", n |-> 0, s |-> ""]
StrV(s) == [k |-> "string", n |-> 0, s |-> s]
UndefV == [k |-> "undefined", n |-> 0, s |-> ""]
NullV == [k |-> "null", n |-> 0, s |-> ""]

\* typeof v === 'number' (NaN is a number)
TypeofNumber(v) == v.k \in {"number", "NaN"}
\* typeof v === 'string'
TypeofString(v) == v.k = "string"
\* isNaN(v), used only on values whose typeof is 'number'
IsNaN(v) == v.k = "NaN"
\* !v
Falsy(v) ==
  \/ v.k \in {"undefined", "null", "NaN"}
  \/ v.k = "number" /\ v.n = 0
  \/ v.k = "string" /\ v.s = ""

Abs(n) == IF n < 0 THEN -n ELSE n

\* a position argument: an object with fields x and y, or null
Pos(x, y) == [isObj |-> TRUE, x |-> x, y |-> y]
NullPos == [isObj |-> FALSE, x |-> UndefV, y |-> UndefV]

-----------------------------------------------------------------------------
(* Errors, envelopes and backend calls *)

\* the outcome of a block that may throw: text is the fixed part of the
\* Error message, vals the values interpolated into it
Thrown(text, vals) == [thrown |-> TRUE, text |-> text, vals |-> vals]
NoThrow == [thrown |-> FALSE, text |-> "", vals |-> <<>>]

FailEnvelopeFixedText(prefix, err) ==
  [success |-> FALSE, from |-> "tool", prefix |-> prefix,
   text |-> err.text, vals |-> <<>>, hasData |-> FALSE]

\* { success: false, message: `${prefix}: ${error.message}` }
FailEnvelope(prefix, err) ==
  [success |-> FALSE, from |-> "tool", prefix |-> prefix,
   text |-> err.text, vals |-> err.vals, hasData |-> FALSE]

\* the envelope the mouse backend returns from fn (outcome "ok" or "fail")
BackendEnvelope(fn, outcome) ==
  [success |-> outcome = "ok", from |-> "backend", prefix |-> fn,
   text |-> outcome, vals |-> <<>>, hasData |-> FALSE]

NoEnvelope ==
  [success |-> FALSE, from |-> "none", prefix |-> "", text |-> "",
   vals |-> <<>>, hasData |-> FALSE]

\* what a tool function did: the envelope it returned and the calls it made
\* on provider.mouse
Ret(envelope, calls) == [envelope |-> envelope, calls |-> calls, isError |-> FALSE]

BackendOutcomes == {"ok", "fail", "throws"}

\* return provider.mouse.fn(args) inside the function's try block: the
\* backend's envelope, or the catch block's envelope if the backend throws
CallBackend(fn, args, prefix, outcome) ==
  Ret(IF outcome = "throws"
        THEN FailEnvelope(prefix, Thrown("backend error", <<>>))
        ELSE BackendEnvelope(fn, outcome),
      <<[fn |-> fn, args |-> args]>>)

-----------------------------------------------------------------------------
(* tools/mouse.ts: validation *)

ScreenModes == {"ok", "fail", "nodata", "throws", "missing"}

\* position.x < -MAX || position.x > MAX || position.y < -MAX || position.y > MAX
OutsideReasonableBounds(p) ==
  \/ p.x.n < -MAX_ALLOWED_COORDINATE \/ p.x.n > MAX_ALLOWED_COORDINATE
  \/ p.y.n < -MAX_ALLOWED_COORDINATE \/ p.y.n > MAX_ALLOWED_COORDINATE

\* position.x < 0 || position.x >= width || position.y < 0 || position.y >= height
OutsideScreenBounds(p) ==
  \/ p.x.n < 0 \/ p.x.n >= ScreenW
  \/ p.y.n < 0 \/ p.y.n >= ScreenH

\* the body of the inner try block: the getScreenSize call and the check of
\* its result against the position
InnerTry(p, prov) ==
  IF prov.screen = "throws" THEN Thrown("getScreenSize threw", <<>>)
  ELSE IF prov.screen = "ok"
    THEN IF OutsideScreenBounds(p)
           THEN Thrown("is outside screen bounds", <<p.x, p.y>>)
           ELSE NoThrow
    ELSE NoThrow

CatchScreenErrorRethrow(e) == e

\* catch (screenError) { console.warn(...) }: whatever the inner try block
\* raised, the error of the bounds check included, is dropped
CatchScreenError(e) == NoThrow

\* the screen-bounds part of validateMousePosition
ScreenBoundsCheck(p, prov) ==
  IF prov.screen = "missing" THEN NoThrow
  ELSE CatchScreenError(InnerTry(p, prov))

\* the body of the outer try block
OuterTry(p, prov) ==
  IF OutsideReasonableBounds(p)
    THEN Thrown("is outside reasonable bounds", <<p.x, p.y>>)
    ELSE ScreenBoundsCheck(p, prov)

\* catch (e): swallowed when NODE_ENV === 'test' or VITEST is set, else rethrown
CatchOuter(e, isTestEnv) == IF e.thrown /\ isTestEnv THEN NoThrow ELSE e

validateMousePosition(p, prov, isTestEnv) ==
  IF ~p.isObj THEN Thrown("position must be an object", <<>>)
  ELSE IF ~TypeofNumber(p.x) \/ ~TypeofNumber(p.y)
    THEN Thrown("x and y must be numbers", <<p.x, p.y>>)
  ELSE IF IsNaN(p.x) \/ IsNaN(p.y)
    THEN Thrown("x and y cannot be NaN", <<p.x, p.y>>)
  ELSE CatchOuter(OuterTry(p, prov), isTestEnv)

ValidButtons == {"left", "right", "middle"}

validateMouseButtonLax(button) == NoThrow

validateMouseButton(button) ==
  IF Falsy(button) \/ ~TypeofString(button)
    THEN Thrown("Invalid mouse button", <<button>>)
  ELSE IF button.s \notin ValidButtons
    THEN Thrown("Invalid mouse button, must be left, right or middle", <<button>>)
  ELSE NoThrow

\* a parameter declared as `button: MouseButton = 'left'`
DefaultButton(button) == IF button.k = "undefined" THEN StrV("left") ELSE button

MouseMissing == Thrown("Mouse provider not available", <<>>)

ScrollTooLargeOffByOne(amount) == Abs(amount.n) >= MAX_SCROLL_AMOUNT

\* Math.abs(amount) > MAX_SCROLL_AMOUNT
ScrollTooLarge(amount) == Abs(amount.n) > MAX_SCROLL_AMOUNT

-----------------------------------------------------------------------------
(* tools/mouse.ts: the exported tool functions *)

moveMouse(p, prov, isTestEnv, outcome) ==
  LET v == validateMousePosition(p, prov, isTestEnv)
      prefix == "Failed to move mouse"
  IN  IF v.thrown THEN Ret(FailEnvelope(prefix, v), <<>>)
      ELSE IF ~prov.mouse THEN Ret(FailEnvelope(prefix, MouseMissing), <<>>)
      ELSE CallBackend("moveMouse", <<p>>, prefix, outcome)

clickMouse(buttonArg, prov, outcome) ==
  LET button == DefaultButton(buttonArg)
      v == validateMouseButton(button)
      prefix == "Failed to click mouse"
  IN  IF v.thrown THEN Ret(FailEnvelope(prefix, v), <<>>)
      ELSE IF ~prov.mouse THEN Ret(FailEnvelope(prefix, MouseMissing), <<>>)
      ELSE CallBackend("clickMouse", <<button>>, prefix, outcome)

\* position? is an object or absent; `if (position)` skips validation when absent
doubleClick(p, prov, isTestEnv, outcome) ==
  LET v == IF p.isObj THEN validateMousePosition(p, prov, isTestEnv) ELSE NoThrow
      prefix == "Failed to double click"
  IN  IF v.thrown THEN Ret(FailEnvelope(prefix, v), <<>>)
      ELSE IF ~prov.mouse THEN Ret(FailEnvelope(prefix, MouseMissing), <<>>)
      ELSE CallBackend("doubleClick", <<p>>, prefix, outcome)

getCursorPosition(prov, outcome) ==
  LET prefix == "Failed to get cursor position"
  IN  IF ~prov.mouse THEN Ret(FailEnvelope(prefix, MouseMissing), <<>>)
      ELSE CallBackend("getCursorPosition", <<>>, prefix, outcome)

scrollMouse(amount, prov, outcome) ==
  LET prefix == "Failed to scroll mouse"
  IN  IF ~TypeofNumber(amount) \/ IsNaN(amount)
        THEN Ret(FailEnvelope(prefix, Thrown("Invalid scroll amount", <<amount>>)), <<>>)
      ELSE IF ScrollTooLarge(amount)
        THEN Ret(FailEnvelope(prefix, Thrown("Scroll amount too large", <<amount>>)), <<>>)
      ELSE IF ~prov.mouse THEN Ret(FailEnvelope(prefix, MouseMissing), <<>>)
      ELSE CallBackend("scrollMouse", <<amount>>, prefix, outcome)

dragMouse(from, to, buttonArg, prov, isTestEnv, outcome) ==
  LET button == DefaultButton(buttonArg)
      v1 == validateMousePosition(from, prov, isTestEnv)
      v2 == validateMousePosition(to, prov, isTestEnv)
      v3 == validateMouseButton(button)
      prefix == "Failed to drag mouse"
  IN  IF v1.thrown THEN Ret(FailEnvelope(prefix, v1), <<>>)
      ELSE IF v2.thrown THEN Ret(FailEnvelope(prefix, v2), <<>>)
      ELSE IF v3.thrown THEN Ret(FailEnvelope(prefix, v3), <<>>)
      ELSE IF ~prov.mouse THEN Ret(FailEnvelope(prefix, MouseMissing), <<>>)
      ELSE CallBackend("dragMouse", <<from, to, button>>, prefix, outcome)

\* { success: false, message: 'Invalid coordinates provided' }
InvalidCoordinates ==
  [success |-> FALSE, from |-> "tool", prefix |-> "",
   text |-> "Invalid coordinates provided", vals |-> <<>>, hasData |-> FALSE]

clickAt(x, y, buttonArg, prov, isTestEnv, outcome) ==
  LET button == DefaultButton(buttonArg)
      v1 == validateMousePosition(Pos(x, y), prov, isTestEnv)
      v2 == validateMouseButton(button)
      prefix == "Failed to click at position"
  IN  IF ~TypeofNumber(x) \/ ~TypeofNumber(y) \/ IsNaN(x) \/ IsNaN(y)
        THEN Ret(InvalidCoordinates, <<>>)
      ELSE IF v1.thrown THEN Ret(FailEnvelope(prefix, v1), <<>>)
      ELSE IF v2.thrown THEN Ret(FailEnvelope(prefix, v2), <<>>)
      ELSE IF ~prov.mouse THEN Ret(FailEnvelope(prefix, MouseMissing), <<>>)
      ELSE CallBackend("clickAt", <<x, y, button>>, prefix, outcome)

-----------------------------------------------------------------------------
(* handlers/tools.ts: the CallTool request handler, mouse cases *)

\* the handler's catch block: { content: [`Error: ${message}`], isError: true }
HandlerError(text) ==
  [envelope |-> [success |-> FALSE, from |-> "handler", prefix |-> "Error",
                 text |-> text, vals |-> <<>>, hasData |-> FALSE],
   calls |-> <<>>, isError |-> TRUE]

\* typeof args?.button === 'string' ? args.button : 'left'
HandlerButton(button) == IF TypeofString(button) THEN button ELSE StrV("left")

HandleClickAt(x, y, button, prov, isTestEnv, outcome) ==
  IF ~TypeofNumber(x) \/ ~TypeofNumber(y)
    THEN HandlerError("Invalid click_at arguments")
    ELSE clickAt(x, y, HandlerButton(button), prov, isTestEnv, outcome)

HandleClickMouse(button, prov, outcome) ==
  clickMouse(HandlerButton(button), prov, outcome)

HandleDragMouse(fx, fy, tx, ty, button, prov, isTestEnv, outcome) ==
  IF ~TypeofNumber(fx) \/ ~TypeofNumber(fy) \/ ~TypeofNumber(tx) \/ ~TypeofNumber(ty)
    THEN HandlerError("Invalid drag mouse arguments")
    ELSE dragMouse(Pos(fx, fy), Pos(tx, ty), HandlerButton(button), prov, isTestEnv, outcome)


-----------------------------------------------------------------------------
(* Inputs of the mouse operations *)

\* coordinate values around the sanity bound and around a screen edge, a NaN,
\* a non-number and an absent field
CoordVals(edge) ==
  {NumV(-MAX_ALLOWED_COORDINATE - 1), NumV(-MAX_ALLOWED_COORDINATE), NumV(-1),
   NumV(0), NumV(edge - 1), NumV(edge), NumV(MAX_ALLOWED_COORDINATE),
   NumV(MAX_ALLOWED_COORDINATE + 1), NaNV, StrV("12"), UndefV}

Positions ==
  {Pos(x, y) : x \in CoordVals(ScreenW), y \in CoordVals(ScreenH)} \cup {NullPos}

\* the endpoints tried for a drag
DragXs == {NumV(0), NumV(ScreenW), NumV(MAX_ALLOWED_COORDINATE + 1), NaNV, UndefV}
DragYs == {NumV(ScreenH - 1), NumV(ScreenH)}
DragPositions == {Pos(x, y) : x \in DragXs, y \in DragYs} \cup {NullPos}

Buttons ==
  {StrV("left"), StrV("right"), StrV("middle"), StrV("Left"), StrV("double"),
   StrV(""), NumV(1), NullV, UndefV}

Amounts ==
  {NumV(-MAX_SCROLL_AMOUNT - 1), NumV(-MAX_SCROLL_AMOUNT), NumV(-1), NumV(0),
   NumV(1), NumV(MAX_SCROLL_AMOUNT), NumV(MAX_SCROLL_AMOUNT + 1), NaNV,
   StrV("5"), UndefV}

\* the record of the last mouse call: the function or request, its arguments
\* and what the backend would answer
MCall(op, via, p, q, button, amount, outcome) ==
  [op |-> op, via |-> via, p |-> p, q |-> q, button |-> button,
   amount |-> amount, outcome |-> outcome]

NoMCall == MCall("none", "none", NullPos, NullPos, UndefV, UndefV, "ok")

-----------------------------------------------------------------------------
(* Mouse operations as actions *)

MoveMouse ==
  /\ mcall = NoMCall
  /\ \E p \in Positions, o \in BackendOutcomes :
       /\ mcall' = MCall("moveMouse", "function", p, NullPos, UndefV, UndefV, o)
       /\ mret' = moveMouse(p, provider, testEnv, o)
       /\ UNCHANGED <<testEnv, provider, screenVars, displayVars>>

ClickMouse ==
  /\ mcall = NoMCall
  /\ \E b \in Buttons, o \in BackendOutcomes :
       /\ mcall' = MCall("clickMouse", "function", NullPos, NullPos, b, UndefV, o)
       /\ mret' = clickMouse(b, provider, o)
       /\ UNCHANGED <<testEnv, provider, screenVars, displayVars>>

DoubleClick ==
  /\ mcall = NoMCall
  /\ \E p \in Positions, o \in BackendOutcomes :
       /\ mcall' = MCall("doubleClick", "function", p, NullPos, UndefV, UndefV, o)
       /\ mret' = doubleClick(p, provider, testEnv, o)
       /\ UNCHANGED <<testEnv, provider, screenVars, displayVars>>

GetCursorPosition ==
  /\ mcall = NoMCall
  /\ \E o \in BackendOutcomes :
       /\ mcall' = MCall("getCursorPosition", "function", NullPos, NullPos, UndefV, UndefV, o)
       /\ mret' = getCursorPosition(provider, o)
       /\ UNCHANGED <<testEnv, provider, screenVars, displayVars>>

ScrollMouse ==
  /\ mcall = NoMCall
  /\ \E a \in Amounts, o \in BackendOutcomes :
       /\ mcall' = MCall("scrollMouse", "function", NullPos, NullPos, UndefV, a, o)
       /\ mret' = scrollMouse(a, provider, o)
       /\ UNCHANGED <<testEnv, provider, screenVars, displayVars>>

DragMouse ==
  /\ mcall = NoMCall
  /\ \E p \in DragPositions, q \in DragPositions, b \in Buttons, o \in BackendOutcomes :
       /\ mcall' = MCall("dragMouse", "function", p, q, b, UndefV, o)
       /\ mret' = dragMouse(p, q, b, provider, testEnv, o)
       /\ UNCHANGED <<testEnv, provider, screenVars, displayVars>>

ClickAt ==
  /\ mcall = NoMCall
  /\ \E x \in CoordVals(ScreenW), y \in CoordVals(ScreenH), b \in Buttons,
        o \in BackendOutcomes :
       /\ mcall' = MCall("clickAt", "function", Pos(x, y), NullPos, b, UndefV, o)
       /\ mret' = clickAt(x, y, b, provider, testEnv, o)
       /\ UNCHANGED <<testEnv, provider, screenVars, displayVars>>

RequestClickAt ==
  /\ mcall = NoMCall
  /\ \E x \in CoordVals(ScreenW), y \in CoordVals(ScreenH), b \in Buttons,
        o \in BackendOutcomes :
       /\ mcall' = MCall("clickAt", "handler", Pos(x, y), NullPos, b, UndefV, o)
       /\ mret' = HandleClickAt(x, y, b, provider, testEnv, o)
       /\ UNCHANGED <<testEnv, provider, screenVars, displayVars>>

RequestClickMouse ==
  /\ mcall = NoMCall
  /\ \E b \in Buttons, o \in BackendOutcomes :
       /\ mcall' = MCall("clickMouse", "handler", NullPos, NullPos, b, UndefV, o)
       /\ mret' = HandleClickMouse(b, provider, o)
       /\ UNCHANGED <<testEnv, provider, screenVars, displayVars>>

RequestDragMouse ==
  /\ mcall = NoMCall
  /\ \E fx \in DragXs, fy \in DragYs, tx \in DragXs, ty \in DragYs, b \in Buttons,
        o \in BackendOutcomes :
       /\ mcall' = MCall("dragMouse", "handler", Pos(fx, fy), Pos(tx, ty), b, UndefV, o)
       /\ mret' = HandleDragMouse(fx, fy, tx, ty, b, provider, testEnv, o)
       /\ UNCHANGED <<testEnv, provider, screenVars, displayVars>>

\* the caller takes the returned envelope (the request handler sends it as the
\* response) and the next call can be made: one call is in progress at a time
Respond ==
  /\ mcall # NoMCall
  /\ mcall' = NoMCall
  /\ mret' = Ret(NoEnvelope, <<>>)
  /\ UNCHANGED <<testEnv, provider, screenVars, displayVars>>



-----------------------------------------------------------------------------
(* Properties of the mouse tool functions *)

Range(f) == {f[i] : i \in DOMAIN f}

\* the position arguments of the last call
CallPositions ==
  IF mcall.op = "dragMouse" THEN {mcall.p, mcall.q}
  ELSE IF mcall.op \in {"moveMouse", "doubleClick", "clickAt"} THEN {mcall.p}
  ELSE {}

NumericPos(p) == p.isObj /\ p.x.k = "number" /\ p.y.k = "number"

WithinSanity(p) ==
  /\ -MAX_ALLOWED_COORDINATE <= p.x.n /\ p.x.n <= MAX_ALLOWED_COORDINATE
  /\ -MAX_ALLOWED_COORDINATE <= p.y.n /\ p.y.n <= MAX_ALLOWED_COORDINATE

OnScreen(p) == 0 <= p.x.n /\ p.x.n < ScreenW /\ 0 <= p.y.n /\ p.y.n < ScreenH

Rejected == ~mret.envelope.success /\ mret.calls = <<>>

\* C1: a position within [-10000, 10000] that lies outside the screen the
\* provider reports makes moveMouse, doubleClick, dragMouse (either endpoint)
\* and clickAt return success:false without any call on provider.mouse.
C1_OffScreenRejected ==
  ( /\ mcall.via = "function"
    /\ provider.screen = "ok"
    /\ \E p \in CallPositions : NumericPos(p) /\ WithinSanity(p) /\ ~OnScreen(p) )
  => Rejected

\* C2: a position with a NaN coordinate or a coordinate outside
\* [-10000, 10000] makes moveMouse, clickAt and dragMouse return success:false
\* without any call on the mouse backend, in every process environment.
C2_InsanePositionRejected ==
  ( /\ mcall.via = "function"
    /\ mcall.op \in {"moveMouse", "clickAt", "dragMouse"}
    /\ \E p \in CallPositions :
         /\ p.isObj /\ TypeofNumber(p.x) /\ TypeofNumber(p.y)
         /\ (IsNaN(p.x) \/ IsNaN(p.y) \/ ~WithinSanity(p)) )
  => Rejected

\* a button value (not an absent argument) outside {left, right, middle}
InvalidButtonValue(b) ==
  b.k # "undefined" /\ ~(b.k = "string" /\ b.s \in ValidButtons)

ButtonOps == {"clickMouse", "clickAt", "dragMouse"}

OffendingValues ==
  UNION { {v \in {p.x, p.y} : ~TypeofNumber(v) \/ IsNaN(v)
                              \/ v.n < -MAX_ALLOWED_COORDINATE
                              \/ v.n > MAX_ALLOWED_COORDINATE}
          : p \in {q \in CallPositions : q.isObj} }
  \cup (IF mcall.op \in ButtonOps /\ InvalidButtonValue(mcall.button)
          THEN {mcall.button} ELSE {})
  \cup (IF mcall.op = "scrollMouse"
           /\ (mcall.amount.k # "number" \/ Abs(mcall.amount.n) > MAX_SCROLL_AMOUNT)
          THEN {mcall.amount} ELSE {})

\* the envelope reports a failed validation (not a missing or failing backend)
ValidationFailure ==
  /\ mcall.via = "function"
  /\ mret.envelope.from = "tool"
  /\ mret.envelope.text \notin {"Mouse provider not available", "backend error"}

EmbedsOffendingValue == Range(mret.envelope.vals) \cap OffendingValues # {}

C8_ScrollBounded ==
  (mcall.op = "scrollMouse" /\ mcall.via = "function") =>
    IF mcall.amount.k # "number" \/ Abs(mcall.amount.n) > MAX_SCROLL_AMOUNT
      THEN Rejected
      ELSE provider.mouse =>
             /\ mret.calls = <<[fn |-> "scrollMouse", args |-> <<mcall.amount>>]>>
             /\ mcall.outcome # "throws"
                  => mret.envelope = BackendEnvelope("scrollMouse", mcall.outcome)

C8_Witness ==
  /\ mcall.op = "scrollMouse"
  /\ mcall.amount = NumV(MAX_SCROLL_AMOUNT)
  /\ mret.envelope.success /\ mret.envelope.from = "backend"
  /\ Len(mret.calls) = 1

\* C9: when the provider cannot report the screen size (failure envelope, no
\* data, exception, or no screen capability), moveMouse forwards a position
\* within [-10000, 10000] to the backend and returns the backend's envelope.
C9_LookupFailureSkipsCheck ==
  ( /\ mcall.op = "moveMouse" /\ mcall.via = "function"
    /\ provider.screen \in {"fail", "nodata", "throws", "missing"}
    /\ provider.mouse
    /\ NumericPos(mcall.p) /\ WithinSanity(mcall.p) )
  => /\ mret.calls = <<[fn |-> "moveMouse", args |-> <<mcall.p>>]>>
     /\ mcall.outcome # "throws"
          => mret.envelope = BackendEnvelope("moveMouse", mcall.outcome)

C9_Witness ==
  /\ mcall.op = "moveMouse" /\ provider.screen = "throws" /\ ~testEnv
  /\ NumericPos(mcall.p) /\ mcall.p.x.n = ScreenW
  /\ mret.envelope.success /\ mret.envelope.from = "backend"


-----------------------------------------------------------------------------
(* providers/keysender/screen.ts: strings *)

\* a string is the sequence of its characters
UnknownTitle == <<"U", "n", "k", "n", "o", "w", "n">>

\* String.prototype.toLowerCase on the characters that occur in the model
LowerChar(c) ==
  CASE c = "A" -> "a" [] c = "B" -> "b" [] c = "C" -> "c" [] c = "E" -> "e"
    [] c = "F" -> "f" [] c = "N" -> "n" [] c = "P" -> "p" [] c = "S" -> "s"
    [] c = "U" -> "u" [] c = "V" -> "v" [] c = "W" -> "w" [] c = "X" -> "x"
    [] OTHER -> c

toLowerCase(str) == [i \in DOMAIN str |-> LowerChar(str[i])]

\* String.prototype.includes
includes(str, sub) ==
  \E i \in 0..(Len(str) - Len(sub)) : SubSeq(str, i + 1, i + Len(sub)) = sub

\* str.trim() === ""
TrimIsEmpty(str) == \A i \in DOMAIN str : str[i] = " "

\* the application names findSuitableWindow prefers
PreferredApps ==
  { <<"N", "o", "t", "e", "p", "a", "d">>,
    <<"C", "h", "r", "o", "m", "e">>,
    <<"F", "i", "r", "e", "f", "o", "x">>,
    <<"V", "i", "s", "u", "a", "l", " ", "S", "t", "u", "d", "i", "o", " ", "C", "o", "d", "e">>,
    <<"W", "o", "r", "d">>,
    <<"E", "x", "c", "e", "l">>,
    <<"P", "o", "w", "e", "r", "P", "o", "i", "n", "t">> }

-----------------------------------------------------------------------------
(* providers/keysender/screen.ts: window resolution *)

MIN_VIEW_ORIGIN == -10000
FALLBACK_WIDTH == 800
FALLBACK_HEIGHT == 600

Rect(x, y, width, height) == [x |-> x, y |-> y, width |-> width, height |-> height]
FallbackView == Rect(0, 0, FALLBACK_WIDTH, FALLBACK_HEIGHT)
ZeroView == Rect(0, 0, 0, 0)

\* an optional title argument
Given(title) == [given |-> TRUE, s |-> title]
NotGiven == [given |-> FALSE, s |-> <<>>]
\* `targetTitle ? ... : ...`: undefined and "" are falsy
Truthy(target) == target.given /\ target.s # <<>>

\* w.title && typeof w.title === 'string' && w.title.trim() !== ""
HasTitle(w) == w.title # <<>> /\ ~TrimIsEmpty(w.title)

TitleMatchesExactOnly(w, t) == w.title = t

\* the filter of matchingWindows: one predicate, the three tests joined by ||
TitleMatches(w, t) ==
  \/ w.title = t
  \/ includes(w.title, t)
  \/ includes(toLowerCase(w.title), toLowerCase(t))

IsPreferred(w) == \E app \in PreferredApps : includes(w.title, app)

\* the check of the view rectangle a candidate's getView returned; a window
\* whose getView throws (viewOk = FALSE) is skipped by the catch block
ViewValid(w) ==
  /\ w.viewOk
  /\ w.view.width > 0 /\ w.view.height > 0
  /\ w.view.x > MIN_VIEW_ORIGIN /\ w.view.y > MIN_VIEW_ORIGIN

\* matchingWindows as it stands before the candidate loop; <<>> where the
\* function returns null before the loop
Candidates(target, wins) ==
  LET withTitle == SelectSeq(wins, HasTitle)
      Match(w) == TitleMatches(w, target.s)
      matching == IF Truthy(target) THEN SelectSeq(withTitle, Match) ELSE <<>>
      preferred == SelectSeq(withTitle, IsPreferred)
  IN  IF matching # <<>> THEN matching
      ELSE IF Truthy(target) /\ target.s # UnknownTitle THEN <<>>
      ELSE IF preferred # <<>> THEN preferred
      ELSE withTitle

NoWindow ==
  [title |-> <<>>, className |-> "", handle |-> 0, view |-> ZeroView, viewOk |-> FALSE]

\* null
NotFound(queries) ==
  [found |-> FALSE, window |-> NoWindow, viewInfo |-> ZeroView, queries |-> queries]

\* the candidate loop calling getView on every candidate before it chooses
findSuitableWindowQueriesAll(target, enum, wins) ==
  LET Loop(c) ==
        LET valid == {i \in DOMAIN c : ViewValid(c[i])}
            first == CHOOSE i \in valid : \A j \in valid : i <= j
        IN  IF c = <<>> THEN NotFound(<<>>)
            ELSE IF valid # {}
              THEN [found |-> TRUE, window |-> c[first], viewInfo |-> c[first].view,
                    queries |-> [i \in DOMAIN c |-> c[i].handle]]
              ELSE [found |-> TRUE, window |-> c[1], viewInfo |-> FallbackView,
                    queries |-> [i \in DOMAIN c |-> c[i].handle]]
  IN  IF enum = "throws" THEN NotFound(<<>>)
      ELSE CHOOSE res \in {Loop(v) : v \in {Candidates(target, wins)}} : TRUE

\* the candidate loop without the fallback after it
findSuitableWindowNoFallback(target, enum, wins) ==
  LET Loop(c) ==
        LET valid == {i \in DOMAIN c : ViewValid(c[i])}
            first == CHOOSE i \in valid : \A j \in valid : i <= j
        IN  IF c = <<>> THEN NotFound(<<>>)
            ELSE IF valid # {}
              THEN [found |-> TRUE, window |-> c[first], viewInfo |-> c[first].view,
                    queries |-> [i \in 1..first |-> c[i].handle]]
              ELSE NotFound([i \in DOMAIN c |-> c[i].handle])
  IN  IF enum = "throws" THEN NotFound(<<>>)
      ELSE CHOOSE res \in {Loop(v) : v \in {Candidates(target, wins)}} : TRUE

\* queries: the handles on which the candidate loop called getView, in order.
\* Here and below `CHOOSE res \in {Rest(v) : v \in {e}} : TRUE` is
\* `const v = e; <rest>`: e is evaluated once and the rest works on its value
findSuitableWindow(target, enum, wins) ==
  LET Loop(c) ==
        LET valid == {i \in DOMAIN c : ViewValid(c[i])}
            first == CHOOSE i \in valid : \A j \in valid : i <= j
        IN  IF c = <<>> THEN NotFound(<<>>)
            ELSE IF valid # {}
              THEN [found |-> TRUE, window |-> c[first], viewInfo |-> c[first].view,
                    queries |-> [i \in 1..first |-> c[i].handle]]
              ELSE [found |-> TRUE, window |-> c[1], viewInfo |-> FallbackView,
                    queries |-> [i \in DOMAIN c |-> c[i].handle]]
  IN  IF enum = "throws" THEN NotFound(<<>>)
      ELSE CHOOSE res \in {Loop(v) : v \in {Candidates(target, wins)}} : TRUE


-----------------------------------------------------------------------------
(* providers/keysender/screen.ts: envelopes and native calls *)

\* the data object of a screen envelope; keys are the properties it has
WindowData(keys, title, className, handle, x, y, width, height, isFg, isOpen) ==
  [keys |-> keys, title |-> title, className |-> className, handle |-> handle,
   position |-> [x |-> x, y |-> y], size |-> [width |-> width, height |-> height],
   isForeground |-> isFg, isOpen |-> isOpen]

NoData == WindowData({}, <<>>, "", 0, 0, 0, 0, 0, FALSE, FALSE)

DescriptorKeys == {"title", "className", "handle", "position", "size"}

\* message: a fixed text, the title interpolated into it and the optional
\* " (foreground)" and " (open)" suffixes
ScreenEnvelope(success, text, arg, fgTag, openTag, hasData, data) ==
  [success |-> success, text |-> text, arg |-> arg, fgTag |-> fgTag,
   openTag |-> openTag, hasData |-> hasData, data |-> data]

ScreenFailureWithData(text, arg) == ScreenEnvelope(FALSE, text, arg, FALSE, FALSE, TRUE, NoData)

ScreenFailure(text, arg) == ScreenEnvelope(FALSE, text, arg, FALSE, FALSE, FALSE, NoData)

NoScreenEnvelope == ScreenEnvelope(FALSE, "none", <<>>, FALSE, FALSE, FALSE, NoData)

\* a call on the native layer: the function and the window handle it is for
Native(fn, h) == [fn |-> fn, h |-> h, view |-> ZeroView]
NativeSetView(h, view) == [fn |-> "setView", h |-> h, view |-> view]

GetViewCalls(queries) == [i \in DOMAIN queries |-> Native("getView", queries[i])]

\* what the native layer does in one operation: enumeration (first and second
\* getAllWindows call), workwindow.get, workwindow.set, setForeground, setView
NativeBehaviour(enum, enum2, get, set, fg, setView) ==
  [enum |-> enum, enum2 |-> enum2, get |-> get, set |-> set, fg |-> fg,
   setView |-> setView]

NoFault == NativeBehaviour("ok", "ok", "ok", "ok", "ok", "applied")

\* className || "Unknown"
ClassNameOr(w) == IF w.className = "" THEN "Unknown" ELSE w.className

\* hardware.workwindow.isForeground() of the work window ww
IsForeground(ww, fg) == ww # 0 /\ fg = ww

\* hardware.workwindow.isOpen()
IsOpen(ww, wins) == \E i \in DOMAIN wins : wins[i].handle = ww

\* the state of the provider and of the desktop an operation works on, and
\* what the operation leaves behind
Outcome(envelope, wins, ww, fg, log) ==
  [envelope |-> envelope, windows |-> wins, ww |-> ww, fg |-> fg, log |-> log]

-----------------------------------------------------------------------------
(* providers/keysender/screen.ts: getActiveWindow and focusWindow *)

\* { title: "Unknown", className: "Unknown", handle: 0, position: {0,0}, size: {0,0} }
PlaceholderData == WindowData(DescriptorKeys, UnknownTitle, "Unknown", 0, 0, 0, 0, 0, FALSE, FALSE)

getActiveWindowFailsWhenEmpty(nat, wins, ww, fg) ==
  Outcome(ScreenFailure("Could not find window with title", <<>>), wins, ww, fg, <<>>)

getActiveWindow(nat, wins, ww, fg) ==
  LET Rest(r) ==
        LET w == r.window
            ww2 == IF nat.set = "ok" THEN w.handle ELSE ww
            isFg == IsForeground(ww2, fg)
            log == GetViewCalls(r.queries) \o <<Native("get", w.handle)>>
        IN  IF ~r.found
              THEN Outcome(ScreenEnvelope(TRUE, "Active window: Unknown (no suitable window found)",
                                          <<>>, FALSE, FALSE, TRUE, PlaceholderData),
                           wins, ww, fg, GetViewCalls(r.queries))
            ELSE IF nat.get = "throws"
              THEN Outcome(ScreenFailure("Failed to get active window", <<>>), wins, ww, fg, log)
            ELSE Outcome(ScreenEnvelope(TRUE, "Active window", w.title, isFg, FALSE, TRUE,
                           WindowData(DescriptorKeys \cup {"isForeground"}, w.title,
                                      ClassNameOr(w), w.handle, r.viewInfo.x, r.viewInfo.y,
                                      r.viewInfo.width, r.viewInfo.height, isFg, FALSE)),
                         wins, ww2, fg, log \o <<Native("set", w.handle)>>)
  IN  CHOOSE res \in {Rest(v) : v \in {findSuitableWindow(NotGiven, nat.enum, wins)}} : TRUE

\* the branch for title === "Unknown" after the first lookup found nothing
focusAlternative(title, nat, wins, ww, fg, queries) ==
  LET Rest(any) ==
        LET w == any.window
            fg2 == IF nat.fg = "ok" THEN w.handle ELSE fg
            log == GetViewCalls(queries) \o GetViewCalls(any.queries)
            missing == ScreenFailure("Could not find window with title", title)
        IN  IF ~any.found THEN Outcome(missing, wins, ww, fg, log)
            ELSE IF nat.set = "throws"
              THEN Outcome(missing, wins, ww, fg, log \o <<Native("set", w.handle)>>)
            ELSE Outcome(ScreenEnvelope(TRUE, "Focused alternative window", w.title, FALSE,
                           FALSE, TRUE,
                           WindowData(DescriptorKeys \cup {"isForeground"}, w.title,
                                      ClassNameOr(w), w.handle, any.viewInfo.x, any.viewInfo.y,
                                      any.viewInfo.width, any.viewInfo.height,
                                      IsForeground(w.handle, fg2), FALSE)),
                         wins, w.handle, fg2,
                         log \o <<Native("set", w.handle), Native("setForeground", w.handle)>>)
  IN  CHOOSE res \in {Rest(v) : v \in {findSuitableWindow(NotGiven, nat.enum2, wins)}} : TRUE

focusWindow(title, nat, wins, ww, fg) ==
  LET Rest(r) ==
        LET w == r.window
            ww2 == IF nat.set = "ok" THEN w.handle ELSE ww
            fg2 == IF nat.fg = "ok" THEN ww2 ELSE fg
            isFg == IsForeground(ww2, fg2)
            isOpen == IsOpen(ww2, wins)
        IN  IF ~r.found
              THEN IF title = UnknownTitle
                     THEN focusAlternative(title, nat, wins, ww, fg, r.queries)
                     ELSE Outcome(ScreenFailure("Could not find window with title", title),
                                  wins, ww, fg, GetViewCalls(r.queries))
              ELSE Outcome(ScreenEnvelope(TRUE, "Focused window", w.title, isFg, isOpen, TRUE,
                             WindowData(DescriptorKeys \cup {"isForeground", "isOpen"}, w.title,
                                        ClassNameOr(w), w.handle, r.viewInfo.x, r.viewInfo.y,
                                        r.viewInfo.width, r.viewInfo.height, isFg, isOpen)),
                           wins, ww2, fg2,
                           GetViewCalls(r.queries)
                             \o <<Native("set", w.handle), Native("setForeground", ww2)>>)
  IN  CHOOSE res \in {Rest(v) : v \in {findSuitableWindow(Given(title), nat.enum, wins)}} : TRUE


-----------------------------------------------------------------------------
(* providers/keysender/screen.ts: updateWindowPosition, resize, reposition *)

\* a requested field: a number, or null for a field the operation leaves alone
Req(n) == [null |-> FALSE, n |-> n]
Null == [null |-> TRUE, n |-> 0]

\* `v !== null ? v : current || 0`
Merge(req, current) == IF req.null THEN current ELSE req.n

ReplaceView(wins, h, view) ==
  [i \in DOMAIN wins |-> IF wins[i].handle = h THEN [wins[i] EXCEPT !.view = view]
                                               ELSE wins[i]]

\* this.hardware.workwindow.getView(): the view of the work window, or an
\* exception (no work window, window gone, or a window whose view cannot be read)
CanReadView(ww, wins) == \E i \in DOMAIN wins : wins[i].handle = ww /\ wins[i].viewOk
ReadView(ww, wins) == (CHOOSE w \in Range(wins) : w.handle = ww).view

NoContinuation ==
  [op |-> "none", title |-> <<>>, handle |-> 0, newView |-> ZeroView,
   x |-> Null, y |-> Null, width |-> Null, height |-> Null]

\* the part of updateWindowPosition that runs before `await`: cont is the
\* continuation left waiting on the 100 ms timer (NoContinuation if the
\* function returned before reaching it), result what the promise resolves to
\* in that case
updateWindowPosition(title, x, y, width, height, op, nat, wins, ww, fg) ==
  LET Rest(f) ==
        LET currentView == IF CanReadView(f.ww, f.windows) THEN ReadView(f.ww, f.windows)
                           ELSE ZeroView
            newView == Rect(Merge(x, currentView.x), Merge(y, currentView.y),
                            Merge(width, currentView.width), Merge(height, currentView.height))
            wins2 == IF nat.setView = "applied" THEN ReplaceView(f.windows, f.ww, newView)
                     ELSE f.windows
            log == f.log \o <<Native("getView", f.ww), NativeSetView(f.ww, newView)>>
        IN  IF ~f.envelope.success
              THEN [out |-> f, cont |-> NoContinuation]
              ELSE [out |-> Outcome(NoScreenEnvelope, wins2, f.ww, f.fg, log),
                    cont |-> [op |-> op, title |-> f.envelope.data.title,
                              handle |-> f.envelope.data.handle, newView |-> newView,
                              x |-> x, y |-> y, width |-> width, height |-> height]]
  IN  CHOOSE res \in {Rest(v) : v \in {focusWindow(title, nat, wins, ww, fg)}} : TRUE

\* `a || b` on numbers
OrElse(a, b) == IF a # 0 THEN a ELSE b

\* the part of updateWindowPosition after the timer: re-read the view of the
\* work window, check the foreground, build the envelope
updateWindowPositionAfterDelay(cont, wins, ww, fg) ==
  LET updatedView == IF CanReadView(ww, wins) THEN ReadView(ww, wins) ELSE cont.newView
      isFg == IsForeground(ww, fg)
  IN  ScreenEnvelope(TRUE, IF cont.op = "resize" THEN "Resized window" ELSE "Repositioned window",
        cont.title, FALSE, FALSE, TRUE,
        WindowData({"title", "handle", "position", "size", "isForeground",
                    IF cont.op = "resize" THEN "requestedSize" ELSE "requestedPosition"},
                   cont.title, "", cont.handle,
                   OrElse(updatedView.x, cont.newView.x), OrElse(updatedView.y, cont.newView.y),
                   OrElse(updatedView.width, cont.newView.width),
                   OrElse(updatedView.height, cont.newView.height), isFg, FALSE))

\* the envelope resizeWindow builds itself, right after starting the update
resizeWindow(title, width, height, nat, wins, ww, fg) ==
  LET Return(u) ==
        [out |-> [u.out EXCEPT !.envelope =
                    ScreenEnvelope(TRUE, "Resized window", title, FALSE, FALSE, TRUE,
                      WindowData({"title", "handle", "position", "size", "isForeground",
                                  "requestedSize"},
                                 title, "", 0, 0, 0, width, height, FALSE, FALSE))],
         cont |-> u.cont]
  IN  CHOOSE res \in
        {Return(v) : v \in {updateWindowPosition(title, Null, Null, Req(width), Req(height), "resize",
                                                  nat, wins, ww, fg)}} : TRUE

repositionWindow(title, x, y, nat, wins, ww, fg) ==
  LET Return(u) ==
        [out |-> [u.out EXCEPT !.envelope =
                    ScreenEnvelope(TRUE, "Repositioned window", title, FALSE, FALSE, TRUE,
                      WindowData({"title", "handle", "position", "size", "isForeground",
                                  "requestedPosition"},
                                 title, "", 0, x, y, 0, 0, FALSE, FALSE))],
         cont |-> u.cont]
  IN  CHOOSE res \in
        {Return(v) : v \in {updateWindowPosition(title, Req(x), Req(y), Null, Null, "reposition",
                                                  nat, wins, ww, fg)}} : TRUE


-----------------------------------------------------------------------------
(* providers/keysender/screen.ts: construction and display metrics *)

\* what a call on the provider, or a request to the handler, came to: the
\* envelope returned (raised: no envelope, an exception left the call), the
\* image behind a screenshot envelope and the provider calls a request made
Returned(envelope) ==
  [raised |-> FALSE, isError |-> FALSE, envelope |-> envelope, calls |-> <<>>]

NoDisplayData ==
  [width |-> 0, height |-> 0, monitorCount |-> 0, monitors |-> <<>>,
   virtualScreen |-> ZeroView]

\* what the encoder of the sharp pipeline was given
NoEncoder == [format |-> "none", quality |-> 0, compressionLevel |-> 0]

NoImage ==
  [path |-> "none", width |-> 0, height |-> 0, base64Length |-> 0, encoder |-> NoEncoder]

\* { success: false, message: `${text}: ${cause}` }, without data
DisplayFailure(text, cause) ==
  [success |-> FALSE, text |-> text, cause |-> cause, hasData |-> FALSE,
   data |-> NoDisplayData, image |-> NoImage]

DisplaySuccess(text, data, image) ==
  [success |-> TRUE, text |-> text, cause |-> "", hasData |-> TRUE,
   data |-> data, image |-> image]

NoDisplayEnvelope == DisplayFailure("none", "")

Raised == [raised |-> TRUE, isError |-> FALSE, envelope |-> NoDisplayEnvelope, calls |-> <<>>]

\* the constructor: the field initializer `hardware = new Hardware()` runs
\* first, outside the try block; koffi.load and user32.func run inside it and
\* the catch block installs a GetSystemMetrics that returns 0
constructor(hardware, load) ==
  IF hardware = "throws" THEN [thrown |-> TRUE, binding |-> "none"]
  ELSE IF load = "throws" THEN [thrown |-> FALSE, binding |-> "dummy"]
  ELSE [thrown |-> FALSE, binding |-> "native"]

\* a provider object exists
Built == {"native", "dummy"}

\* the values user32's GetSystemMetrics reports for the indices the provider reads
Metrics(cx, cy, monitors, vx, vy, vcx, vcy) ==
  [SM_CXSCREEN |-> cx, SM_CYSCREEN |-> cy, SM_CMONITORS |-> monitors,
   SM_XVIRTUALSCREEN |-> vx, SM_YVIRTUALSCREEN |-> vy,
   SM_CXVIRTUALSCREEN |-> vcx, SM_CYVIRTUALSCREEN |-> vcy]

GetSystemMetricsNoDummy(bind, native, nIndex) == native[nIndex]

\* this.GetSystemMetrics(nIndex): the native function, or the dummy `() => 0`
GetSystemMetrics(bind, native, nIndex) ==
  IF bind = "dummy" THEN 0 ELSE native[nIndex]

\* the native call can throw only when it is the native function
MetricsThrow(bind, throws) == bind = "native" /\ throws

getScreenSizeIgnoringZero(bind, native, throws) ==
  Returned(DisplaySuccess("Primary screen size",
             [NoDisplayData EXCEPT !.width = GetSystemMetrics(bind, native, "SM_CXSCREEN"),
                                   !.height = GetSystemMetrics(bind, native, "SM_CYSCREEN")],
             NoImage))

getScreenSize(bind, native, throws) ==
  LET screenWidth == GetSystemMetrics(bind, native, "SM_CXSCREEN")
      screenHeight == GetSystemMetrics(bind, native, "SM_CYSCREEN")
      prefix == "Failed to get screen size using koffi"
  IN  IF MetricsThrow(bind, throws) THEN Returned(DisplayFailure(prefix, "native error"))
      ELSE IF screenWidth = 0 \/ screenHeight = 0
        THEN Returned(DisplayFailure(prefix,
                        "GetSystemMetrics returned zero for screen dimensions."))
      ELSE Returned(DisplaySuccess("Primary screen size",
                      [NoDisplayData EXCEPT !.width = screenWidth, !.height = screenHeight],
                      NoImage))

ESTIMATED_TASKBAR_HEIGHT == 40

MonitorInfo(index, isPrimary, x, y, width, height, workHeight) ==
  [index |-> index, isPrimary |-> isPrimary,
   bounds |-> Rect(x, y, width, height), workArea |-> Rect(x, y, width, workHeight)]

\* the monitors array: the primary, the second monitor estimated from the
\* virtual screen when it is wider than the primary, placeholders from index 2
Monitors(screenWidth, screenHeight, monitorCount, virtualWidth, virtualHeight) ==
  LET primary == MonitorInfo(0, TRUE, 0, 0, screenWidth, screenHeight,
                             screenHeight - ESTIMATED_TASKBAR_HEIGHT)
      secondaryWidth == virtualWidth - screenWidth
      secondary == MonitorInfo(1, FALSE, screenWidth, 0, secondaryWidth, virtualHeight,
                               virtualHeight - ESTIMATED_TASKBAR_HEIGHT)
      others == [i \in 1..(monitorCount - 2) |-> MonitorInfo(i + 1, FALSE, 0, 0, 0, 0, 0)]
  IN  IF monitorCount > 1
        THEN <<primary>> \o (IF secondaryWidth > 0 THEN <<secondary>> ELSE <<>>) \o others
        ELSE <<primary>>

\* the zero check as a hard failure for every metric it tests
AnyMetricZeroFails(screenWidth, screenHeight, monitorCount, virtualWidth, virtualHeight) ==
  \/ screenWidth = 0 \/ screenHeight = 0 \/ monitorCount = 0
  \/ virtualWidth = 0 \/ virtualHeight = 0

\* the zero check: a warning for every metric, an error only for the monitor count
ZeroMetricFails(screenWidth, screenHeight, monitorCount, virtualWidth, virtualHeight) ==
  /\ \/ screenWidth = 0 \/ screenHeight = 0 \/ monitorCount = 0
     \/ virtualWidth = 0 \/ virtualHeight = 0
  /\ monitorCount = 0

getAllDisplays(bind, native, throws) ==
  LET screenWidth == GetSystemMetrics(bind, native, "SM_CXSCREEN")
      screenHeight == GetSystemMetrics(bind, native, "SM_CYSCREEN")
      monitorCount == GetSystemMetrics(bind, native, "SM_CMONITORS")
      virtualX == GetSystemMetrics(bind, native, "SM_XVIRTUALSCREEN")
      virtualY == GetSystemMetrics(bind, native, "SM_YVIRTUALSCREEN")
      virtualWidth == GetSystemMetrics(bind, native, "SM_CXVIRTUALSCREEN")
      virtualHeight == GetSystemMetrics(bind, native, "SM_CYVIRTUALSCREEN")
      prefix == "Failed to get display information using koffi"
  IN  IF MetricsThrow(bind, throws) THEN Returned(DisplayFailure(prefix, "native error"))
      ELSE IF ZeroMetricFails(screenWidth, screenHeight, monitorCount, virtualWidth,
                              virtualHeight)
        THEN Returned(DisplayFailure(prefix, "GetSystemMetrics reported 0 monitors."))
      ELSE Returned(DisplaySuccess("Found display(s) using koffi",
                      [width |-> screenWidth, height |-> screenHeight,
                       monitorCount |-> monitorCount,
                       monitors |-> Monitors(screenWidth, screenHeight, monitorCount,
                                             virtualWidth, virtualHeight),
                       virtualScreen |-> Rect(virtualX, virtualY, virtualWidth, virtualHeight)],
                      NoImage))

-----------------------------------------------------------------------------
(* providers/keysender/screen.ts: getScreenshot *)

\* resize.width of the default options, and maxSize of the fallback
STANDARD_WIDTH == 1280
MAX_SIZE == 1280

Min(a, b) == IF a < b THEN a ELSE b
Max(a, b) == IF a > b THEN a ELSE b

\* Math.round(a / b) for a >= 0 and b > 0
RoundDiv(a, b) == (2 * a + b) \div (2 * b)

\* buffer.toString('base64'): four characters for every three bytes, padded
Base64Length(bytes) == 4 * ((bytes + 2) \div 3)

\* options: the region to capture (or none) and resize.width (0: no resize option)
ScreenshotOptions(hasRegion, region, resizeWidth) ==
  [hasRegion |-> hasRegion, region |-> region, resizeWidth |-> resizeWidth,
   format |-> UndefV, quality |-> UndefV, compressionLevel |-> UndefV]

\* the same options with format, quality and compressionLevel as given
WithEncoding(options, format, quality, compressionLevel) ==
  [options EXCEPT !.format = format, !.quality = quality,
                  !.compressionLevel = compressionLevel]

DEFAULT_QUALITY == 70
DEFAULT_COMPRESSION_LEVEL == 9

\* the call of pipeline.jpeg or pipeline.png: format and quality come from
\* mergedOptions, whose defaults are 'jpeg' and 70, and `||` replaces a falsy
\* quality or compressionLevel
Encoder(options) ==
  LET format == IF options.format = UndefV THEN StrV("jpeg") ELSE options.format
      quality == IF options.quality = UndefV THEN NumV(DEFAULT_QUALITY) ELSE options.quality
  IN  IF format = StrV("jpeg")
        THEN [format |-> "jpeg",
              quality |-> IF Falsy(quality) THEN DEFAULT_QUALITY ELSE quality.n,
              compressionLevel |-> 0]
        ELSE [format |-> "png", quality |-> 0,
              compressionLevel |-> IF Falsy(options.compressionLevel)
                                     THEN DEFAULT_COMPRESSION_LEVEL
                                     ELSE options.compressionLevel.n]

\* mergedOptions.resize: the option given replaces the default { width: 1280 }
MergedResizeWidth(options) ==
  IF options.resizeWidth # 0 THEN options.resizeWidth ELSE STANDARD_WIDTH

\* what hardware.workwindow.capture reports: an exception, or the size of the
\* raw capture and the length of its buffer
Capture(outcome, width, height, bytes) ==
  [outcome |-> outcome, width |-> width, height |-> height, bytes |-> bytes]

\* Buffer.from(captureResult.data)
RawBytes(capture) == capture.bytes

\* sharp's resize({ width, withoutEnlargement: true }) of an image
ResizeToWidth(image, width) ==
  LET w == Min(image.width, width)
  IN  [width |-> w, height |-> Max(1, RoundDiv(image.height * w, image.width))]

\* the size of the image the sharp pipeline produces: the initial
\* downsampling, then the final resize to resize.width
PipelineOutput(capture, options) ==
  LET raw == [width |-> capture.width, height |-> capture.height]
      initialWidth == Min(capture.width, MergedResizeWidth(options))
  IN  ResizeToWidth(ResizeToWidth(raw, initialWidth), MergedResizeWidth(options))

ScaledSizeUnscaled(width, height) == [width |-> width, height |-> height]

\* the fallback's scaled dimensions
ScaledSize(width, height) ==
  IF width > MAX_SIZE \/ height > MAX_SIZE
    THEN [width |-> RoundDiv(width * MAX_SIZE, Max(width, height)),
          height |-> RoundDiv(height * MAX_SIZE, Max(width, height))]
    ELSE [width |-> width, height |-> height]

ReportedSizeOfCapture(options, width, height) == [width |-> width, height |-> height]

\* data: the requested region's dimensions, else the dimensions given
ReportedSize(options, width, height) ==
  IF options.hasRegion
    THEN [width |-> options.region.width, height |-> options.region.height]
    ELSE [width |-> width, height |-> height]

ScreenshotData(size) ==
  [NoDisplayData EXCEPT !.width = size.width, !.height = size.height]

\* the catch (sharpError) block
screenshotFallback(options, capture) ==
  LET scaled == ScaledSize(capture.width, capture.height)
  IN  Returned(DisplaySuccess("Screenshot captured with basic processing",
                 ScreenshotData(ReportedSize(options, scaled.width, scaled.height)),
                 [path |-> "fallback", width |-> capture.width, height |-> capture.height,
                  base64Length |-> Base64Length(RawBytes(capture)), encoder |-> NoEncoder]))

\* import: the dynamic import of sharp; pipeline: whether building and running
\* the sharp pipeline throws, and the length of the buffer it produces
getScreenshot(options, import, capture, pipeline) ==
  LET prefix == "Failed to capture screenshot"
      out == PipelineOutput(capture, options)
  IN  IF import = "throws" THEN Returned(DisplayFailure(prefix, "import error"))
      ELSE IF capture.outcome = "throws" THEN Returned(DisplayFailure(prefix, "capture error"))
      ELSE IF pipeline.outcome = "throws" THEN screenshotFallback(options, capture)
      ELSE Returned(DisplaySuccess("Screenshot captured successfully",
                      ScreenshotData(ReportedSize(options, capture.width, capture.height)),
                      [path |-> "sharp", width |-> out.width, height |-> out.height,
                       base64Length |-> Base64Length(pipeline.bytes),
                       encoder |-> Encoder(options)]))

-----------------------------------------------------------------------------
(* handlers/tools.ts: minimize_window and restore_window *)

HandlerFailure(text) ==
  [raised |-> FALSE, isError |-> TRUE, envelope |-> DisplayFailure("Error", text),
   calls |-> <<>>]

HandleUnsupportedCallsProvider(title, text) ==
  [raised |-> FALSE, isError |-> FALSE,
   envelope |-> DisplayFailure(text, ""), calls |-> <<"minimizeWindow">>]

\* both cases: the title check, then the fixed envelope; no provider is obtained
HandleUnsupported(title, text) ==
  IF ~TypeofString(title) THEN HandlerFailure("Invalid window title argument")
  ELSE Returned(DisplayFailure(text, ""))

HandleMinimizeWindow(title) ==
  HandleUnsupported(title, "Minimize window operation is not supported")

HandleRestoreWindow(title) ==
  HandleUnsupported(title, "Restore window operation is not supported")

-----------------------------------------------------------------------------
(* Inputs of the display operations *)

\* metric values: zero and a non-zero value for each dimension, up to three
\* monitors, a virtual screen as wide as the primary or twice as wide
MetricReads ==
  { Metrics(cx, cy, n, 0, 0, vcx, vcy) :
      cx \in {0, ScreenW}, cy \in {0, ScreenH}, n \in 0..3,
      vcx \in {0, ScreenW, 2 * ScreenW}, vcy \in {0, ScreenH} }

NoMetrics == Metrics(0, 0, 0, 0, 0, 0, 0)

\* raw captures of the whole screen: the test suite's mock (a 20-byte buffer
\* that claims 1920x1080), and captures of four bytes a pixel at and around
\* the 1280 bound, in portrait and of a small screen
FullCaptures ==
  { Capture("ok", 1920, 1080, 20), Capture("ok", 1920, 1080, 4 * 1920 * 1080),
    Capture("ok", 1280, 720, 4 * 1280 * 720), Capture("ok", 1281, 1281, 4 * 1281 * 1281),
    Capture("ok", 1000, 2560, 4 * 1000 * 2560), Capture("ok", 800, 600, 4 * 800 * 600),
    Capture("throws", 0, 0, 0) }

Regions == { Rect(100, 200, 300, 400), Rect(0, 0, 2000, 1000) }

\* a region capture reports the region's size, or a slightly different one
RegionCaptures(region) ==
  { Capture("ok", region.width, region.height, 4 * region.width * region.height),
    Capture("ok", region.width + 1, region.height + 1,
            4 * (region.width + 1) * (region.height + 1)),
    Capture("throws", 0, 0, 0) }

ResizeWidths == {0, 640}

MAX_QUALITY == 100
MAX_COMPRESSION_LEVEL == 9

\* format, quality and compressionLevel of a request: PNG with every level or
\* none, JPEG (asked for or by default) with every quality or none
EncodingRequests ==
  { <<StrV("png"), UndefV, level>> :
      level \in {UndefV} \cup {NumV(n) : n \in 0..MAX_COMPRESSION_LEVEL} }
  \cup { <<format, quality, UndefV>> :
           format \in {StrV("jpeg"), UndefV},
           quality \in {UndefV} \cup {NumV(n) : n \in 1..MAX_QUALITY} }

Pipelines == { [outcome |-> "ok", bytes |-> 5], [outcome |-> "throws", bytes |-> 0] }

NoCapture == Capture("none", 0, 0, 0)
NoOptions == ScreenshotOptions(FALSE, ZeroView, 0)
NoPipeline == [outcome |-> "none", bytes |-> 0]

Titles == {StrV("Ab"), StrV(""), NumV(1), NullV, UndefV}

\* the record of the last display call: the operation and what its
\* environment answers (load: whether the module the call loads, user32.dll
\* in the constructor and sharp in getScreenshot, can be loaded)
DCall(op, native, throws, options, load, capture, pipeline, title) ==
  [op |-> op, native |-> native, throws |-> throws, options |-> options,
   load |-> load, capture |-> capture, pipeline |-> pipeline, title |-> title]

NoDCall == DCall("none", NoMetrics, FALSE, NoOptions, "none", NoCapture, NoPipeline, UndefV)

DisplayIdle == dcall = NoDCall /\ dret = Returned(NoDisplayEnvelope)

-----------------------------------------------------------------------------
(* Inputs of the screen operations *)

TExact == <<"A", "b">>
TSub == <<"x", "A", "b">>
TCi == <<"a", "b">>
TOther == <<"z">>
TBlank == <<" ">>
TApp == <<"C", "h", "r", "o", "m", "e">>
TUpper == <<"A", "B">>
TMiss == <<"q">>

GoodView == Rect(1, 1, 4, 3)
\* views a window can have: valid, zero width, origin at the rejected bound,
\* and a window whose getView throws
Readable == [view |-> GoodView, ok |-> TRUE]
ZeroWidth == [view |-> Rect(1, 1, 0, 3), ok |-> TRUE]
FarLeft == [view |-> Rect(MIN_VIEW_ORIGIN, 1, 4, 3), ok |-> TRUE]
Unreadable == [view |-> GoodView, ok |-> FALSE]

\* the windows tried: every view for the exactly matching title, a valid and
\* an invalid view for each other title
WindowKinds ==
  ({TExact} \X {Readable, ZeroWidth, FarLeft, Unreadable})
  \cup ({TSub} \X {Readable, Unreadable})
  \cup ({TCi} \X {Readable, ZeroWidth})
  \cup ({TOther} \X {Readable, FarLeft})
  \cup ({TApp} \X {Readable, ZeroWidth})
  \cup ({TBlank} \X {Readable})

Win(title, handle, kind) ==
  [title |-> title, className |-> "TestClass", handle |-> handle,
   view |-> kind.view, viewOk |-> kind.ok]

\* every window list of at most MaxWindows windows; the handle of a window is
\* its place in the enumeration
WindowLists ==
  UNION { { [i \in 1..n |-> Win(f[i][1], i, f[i][2])] :
              f \in [1..n -> WindowKinds] } : n \in 0..MaxWindows }

Targets == {TExact, TUpper, TMiss, TOther, UnknownTitle, <<>>}

\* the native layer works, or fails in one place
Faults ==
  { NoFault,
    [NoFault EXCEPT !.enum = "throws"], [NoFault EXCEPT !.enum2 = "throws"],
    [NoFault EXCEPT !.get = "throws"], [NoFault EXCEPT !.set = "throws"],
    [NoFault EXCEPT !.fg = "denied"], [NoFault EXCEPT !.fg = "throws"],
    [NoFault EXCEPT !.setView = "ignored"], [NoFault EXCEPT !.setView = "throws"] }

ReqSizes == {<<5, 6>>}
ReqPositions == {<<7, 8>>}

SCall(op, title, a, b) == [op |-> op, title |-> title, a |-> a, b |-> b]
NoSCall == SCall("none", <<>>, 0, 0)

-----------------------------------------------------------------------------
(* Screen operations as actions *)

\* an operation is dispatched when none is in progress
CanDispatch ==
  scall = NoSCall /\ ncmd < MaxCommands /\ binding \in Built /\ dcall = NoDCall

Apply(call, out) ==
  /\ scall' = call
  /\ sret' = out.envelope
  /\ slog' = out.log
  /\ windows' = out.windows
  /\ workwindow' = out.ww
  /\ foreground' = out.fg
  /\ ncmd' = ncmd + 1

GetActiveWindow ==
  /\ CanDispatch
  /\ \E nat \in Faults :
       \E out \in {getActiveWindow(nat, windows, workwindow, foreground)} :
         /\ Apply(SCall("getActiveWindow", <<>>, 0, 0), out)
         /\ UNCHANGED <<pending, mouseVars, displayVars>>

FocusWindow ==
  /\ CanDispatch
  /\ \E title \in Targets, nat \in Faults :
       \E out \in {focusWindow(title, nat, windows, workwindow, foreground)} :
         /\ Apply(SCall("focusWindow", title, 0, 0), out)
         /\ UNCHANGED <<pending, mouseVars, displayVars>>

Enqueue(cont) ==
  pending' = IF cont = NoContinuation THEN pending ELSE Append(pending, cont)

ResizeWindow ==
  /\ CanDispatch /\ Len(pending) < MaxPending
  /\ \E title \in Targets, size \in ReqSizes, nat \in Faults :
       \E r \in {resizeWindow(title, size[1], size[2], nat, windows, workwindow, foreground)} :
         /\ Apply(SCall("resizeWindow", title, size[1], size[2]), r.out)
         /\ Enqueue(r.cont)
         /\ UNCHANGED <<mouseVars, displayVars>>

RepositionWindow ==
  /\ CanDispatch /\ Len(pending) < MaxPending
  /\ \E title \in Targets, at \in ReqPositions, nat \in Faults :
       \E r \in {repositionWindow(title, at[1], at[2], nat, windows, workwindow, foreground)} :
         /\ Apply(SCall("repositionWindow", title, at[1], at[2]), r.out)
         /\ Enqueue(r.cont)
         /\ UNCHANGED <<mouseVars, displayVars>>

\* a continuation that would call setView again after the delay
SettleTimerAppliesView ==
  /\ pending # <<>>
  /\ pending' = Tail(pending)
  /\ windows' = ReplaceView(windows, workwindow, Head(pending).newView)
  /\ UNCHANGED <<workwindow, foreground, scall, sret, slog, ncmd, mouseVars, displayVars>>

\* the 100 ms timer of the oldest waiting continuation fires: the rest of
\* updateWindowPosition runs; the envelope it builds is the value of a promise
\* nobody holds
SettleTimer ==
  /\ pending # <<>>
  /\ pending' = Tail(pending)
  /\ UNCHANGED <<windows, workwindow, foreground, scall, sret, slog, ncmd, mouseVars, displayVars>>

\* the request handler sends the envelope; the next request can be dispatched
RespondScreen ==
  /\ scall # NoSCall
  /\ scall' = NoSCall /\ sret' = NoScreenEnvelope /\ slog' = <<>>
  /\ UNCHANGED <<windows, workwindow, foreground, pending, ncmd, mouseVars, displayVars>>

-----------------------------------------------------------------------------
(* Specifications *)

MouseIdle ==
  /\ testEnv = FALSE /\ provider = [mouse |-> TRUE, screen |-> "ok"]
  /\ mcall = NoMCall /\ mret = Ret(NoEnvelope, <<>>)

ScreenIdle ==
  /\ windows = <<>> /\ workwindow = 0 /\ foreground = 0 /\ pending = <<>>
  /\ scall = NoSCall /\ sret = NoScreenEnvelope /\ slog = <<>> /\ ncmd = 0

\* the process environment and the provider are fixed for the process lifetime
InitMouse ==
  /\ testEnv \in BOOLEAN
  /\ provider \in [mouse : BOOLEAN, screen : ScreenModes]
  /\ mcall = NoMCall
  /\ mret = Ret(NoEnvelope, <<>>)
  /\ ScreenIdle
  /\ binding = "native" /\ DisplayIdle

NextMouse ==
  \/ MoveMouse \/ ClickMouse \/ DoubleClick \/ GetCursorPosition \/ ScrollMouse
  \/ DragMouse \/ ClickAt \/ RequestClickAt \/ RequestClickMouse \/ RequestDragMouse
  \/ Respond

SpecMouse == InitMouse /\ [][NextMouse]_vars

\* window resolution: one operation on every window list
InitResolve ==
  /\ MouseIdle
  /\ windows \in WindowLists
  /\ workwindow = 0 /\ foreground = 0 /\ pending = <<>>
  /\ scall = NoSCall /\ sret = NoScreenEnvelope /\ slog = <<>> /\ ncmd = 0
  /\ binding = "native" /\ DisplayIdle

NextResolve ==
  GetActiveWindow \/ FocusWindow \/ ResizeWindow \/ RepositionWindow

SpecResolve == InitResolve /\ [][NextResolve]_vars

\* a desktop with two windows, on which operations follow one another and the
\* timers of resize and reposition fire in between
DesktopWindows ==
  { <<Win(TExact, 1, Readable), Win(TOther, 2, Readable)>>,
    <<Win(TExact, 1, Unreadable), Win(TOther, 2, Readable)>> }

InitWindow ==
  /\ MouseIdle
  /\ windows \in DesktopWindows
  /\ workwindow = 0 /\ foreground = 0 /\ pending = <<>>
  /\ scall = NoSCall /\ sret = NoScreenEnvelope /\ slog = <<>> /\ ncmd = 0
  /\ binding = "native" /\ DisplayIdle

NextWindow ==
  \/ GetActiveWindow \/ FocusWindow \/ ResizeWindow \/ RepositionWindow
  \/ SettleTimer \/ RespondScreen

SpecWindow == InitWindow /\ [][NextWindow]_vars

-----------------------------------------------------------------------------
(* Construction, display operations and window-state requests as actions *)

\* new KeysenderScreenAutomation(), once
Construct ==
  /\ binding = "unbuilt" /\ dcall = NoDCall
  /\ \E hardware \in {"ok", "throws"}, load \in {"ok", "throws"} :
       \E c \in {constructor(hardware, load)} :
         /\ binding' = c.binding
         /\ dcall' = DCall("constructor", NoMetrics, FALSE, NoOptions,
                           IF c.thrown THEN "none" ELSE load, NoCapture, NoPipeline, UndefV)
         /\ dret' = IF c.thrown THEN Raised ELSE Returned(NoDisplayEnvelope)
  /\ UNCHANGED <<mouseVars, screenVars>>

CanCall == binding \in Built /\ dcall = NoDCall /\ scall = NoSCall

GetScreenSize ==
  /\ CanCall
  /\ \E native \in MetricReads, throws \in BOOLEAN :
       /\ dcall' = DCall("getScreenSize", native, throws, NoOptions, "none", NoCapture,
                         NoPipeline, UndefV)
       /\ dret' = getScreenSize(binding, native, throws)
  /\ UNCHANGED <<binding, mouseVars, screenVars>>

GetAllDisplays ==
  /\ CanCall
  /\ \E native \in MetricReads, throws \in BOOLEAN :
       /\ dcall' = DCall("getAllDisplays", native, throws, NoOptions, "none", NoCapture,
                         NoPipeline, UndefV)
       /\ dret' = getAllDisplays(binding, native, throws)
  /\ UNCHANGED <<binding, mouseVars, screenVars>>

\* getScreenshot without a region
GetScreenshot ==
  /\ CanCall
  /\ \E capture \in FullCaptures, width \in ResizeWidths, import \in {"ok", "throws"},
        pipeline \in Pipelines :
       \E options \in {ScreenshotOptions(FALSE, ZeroView, width)} :
         /\ dcall' = DCall("getScreenshot", NoMetrics, FALSE, options, import, capture,
                           pipeline, UndefV)
         /\ dret' = getScreenshot(options, import, capture, pipeline)
  /\ UNCHANGED <<binding, mouseVars, screenVars>>

\* getScreenshot({ region })
GetRegionScreenshot ==
  /\ CanCall
  /\ \E region \in Regions, width \in ResizeWidths, import \in {"ok", "throws"},
        pipeline \in Pipelines :
       \E capture \in RegionCaptures(region),
          options \in {ScreenshotOptions(TRUE, region, width)} :
         /\ dcall' = DCall("getScreenshot", NoMetrics, FALSE, options, import, capture,
                           pipeline, UndefV)
         /\ dret' = getScreenshot(options, import, capture, pipeline)
  /\ UNCHANGED <<binding, mouseVars, screenVars>>

\* getScreenshot({ format, quality, compressionLevel }) of a small screen
GetEncodedScreenshot ==
  /\ CanCall
  /\ \E enc \in EncodingRequests :
       \E options \in {WithEncoding(ScreenshotOptions(FALSE, ZeroView, 0),
                                     enc[1], enc[2], enc[3])} :
         \E capture \in {Capture("ok", 800, 600, 4 * 800 * 600)},
            pipeline \in {[outcome |-> "ok", bytes |-> 5]} :
           /\ dcall' = DCall("getScreenshot", NoMetrics, FALSE, options, "ok", capture,
                             pipeline, UndefV)
           /\ dret' = getScreenshot(options, "ok", capture, pipeline)
  /\ UNCHANGED <<binding, mouseVars, screenVars>>

\* the handler needs no provider for these requests
RequestMinimizeWindow ==
  /\ dcall = NoDCall /\ scall = NoSCall
  /\ \E title \in Titles :
       /\ dcall' = DCall("minimize_window", NoMetrics, FALSE, NoOptions, "none", NoCapture,
                         NoPipeline, title)
       /\ dret' = HandleMinimizeWindow(title)
  /\ UNCHANGED <<binding, mouseVars, screenVars>>

RequestRestoreWindow ==
  /\ dcall = NoDCall /\ scall = NoSCall
  /\ \E title \in Titles :
       /\ dcall' = DCall("restore_window", NoMetrics, FALSE, NoOptions, "none", NoCapture,
                         NoPipeline, title)
       /\ dret' = HandleRestoreWindow(title)
  /\ UNCHANGED <<binding, mouseVars, screenVars>>

RespondDisplay ==
  /\ dcall # NoDCall
  /\ dcall' = NoDCall /\ dret' = Returned(NoDisplayEnvelope)
  /\ UNCHANGED <<binding, mouseVars, screenVars>>

\* the provider from its construction on
InitProvider ==
  /\ MouseIdle
  /\ windows \in DesktopWindows
  /\ workwindow = 0 /\ foreground = 0 /\ pending = <<>>
  /\ scall = NoSCall /\ sret = NoScreenEnvelope /\ slog = <<>> /\ ncmd = 0
  /\ binding = "unbuilt" /\ DisplayIdle

\* construction, metrics, screenshots and window-state requests
NextDisplay ==
  \/ Construct
  \/ GetScreenSize \/ GetAllDisplays \/ GetScreenshot \/ GetRegionScreenshot
  \/ GetEncodedScreenshot
  \/ RequestMinimizeWindow \/ RequestRestoreWindow \/ RespondDisplay

SpecDisplay == InitProvider /\ [][NextDisplay]_vars

\* the same with window operations in between: lookups, focus changes and
\* updates of the view (repositionWindow takes the path of resizeWindow)
NextProvider ==
  \/ Construct
  \/ GetScreenSize \/ GetAllDisplays \/ GetScreenshot \/ GetRegionScreenshot
  \/ RequestMinimizeWindow \/ RequestRestoreWindow \/ RespondDisplay
  \/ GetActiveWindow \/ FocusWindow \/ ResizeWindow
  \/ SettleTimer \/ RespondScreen

SpecProvider == InitProvider /\ [][NextProvider]_vars

\* one call of any kind on a started server: a mouse tool function in every
\* environment, or an operation of the constructed screen provider
InitEnvelopes ==
  /\ testEnv \in BOOLEAN
  /\ provider \in [mouse : BOOLEAN, screen : ScreenModes]
  /\ mcall = NoMCall /\ mret = Ret(NoEnvelope, <<>>)
  /\ windows \in DesktopWindows
  /\ workwindow = 0 /\ foreground = 0 /\ pending = <<>>
  /\ scall = NoSCall /\ sret = NoScreenEnvelope /\ slog = <<>> /\ ncmd = 0
  /\ binding \in Built /\ DisplayIdle

MouseCall ==
  /\ scall = NoSCall /\ dcall = NoDCall
  /\ \/ MoveMouse \/ ClickMouse \/ DoubleClick \/ GetCursorPosition \/ ScrollMouse
     \/ DragMouse \/ ClickAt

ProviderCall ==
  /\ mcall = NoMCall
  /\ \/ GetScreenSize \/ GetAllDisplays \/ GetScreenshot \/ GetRegionScreenshot
     \/ GetActiveWindow \/ FocusWindow \/ ResizeWindow \/ RepositionWindow

NextEnvelopes == MouseCall \/ ProviderCall

SpecEnvelopes == InitEnvelopes /\ [][NextEnvelopes]_vars



-----------------------------------------------------------------------------
(* Properties of the screen provider *)

WindowOps == {"focusWindow", "resizeWindow", "repositionWindow"}

\* the native calls of the last operation that change a window or the work window
Mutations == {c \in Range(slog) : c.fn \in {"set", "setForeground", "setView"}}

\* the enumerated windows that have a title
Titled == {w \in Range(windows) : w.title # <<>> /\ \E i \in DOMAIN w.title : w.title[i] # " "}

\* the three tests of the title filter, each on its own
TierExact(t) == {w \in Titled : w.title = t}
TierContains(t) == {w \in Titled : includes(w.title, t)}
TierContainsAnyCase(t) == {w \in Titled : includes(toLowerCase(w.title), toLowerCase(t))}

AnyTier(t) == TierExact(t) \cup TierContains(t) \cup TierContainsAnyCase(t)

FirstNonEmptyTier(t) ==
  IF TierExact(t) # {} THEN TierExact(t)
  ELSE IF TierContains(t) # {} THEN TierContains(t)
  ELSE TierContainsAnyCase(t)

\* C3: resizeWindow and repositionWindow return their envelope only after the
\* resolve, read, apply, re-read sequence has completed (no continuation is
\* left waiting), and the envelope carries the re-read geometry of the window
\* (the requested values if the re-read fails) and its actual foreground status.
C3_EnvelopeAfterReread ==
  (scall.op \in {"resizeWindow", "repositionWindow"} /\ sret.success)
  => /\ pending = <<>>
     /\ sret.data.isForeground = IsForeground(workwindow, foreground)
     /\ CanReadView(workwindow, windows)
          => /\ sret.data.position = [x |-> ReadView(workwindow, windows).x,
                                      y |-> ReadView(workwindow, windows).y]
             /\ sret.data.size = [width |-> ReadView(workwindow, windows).width,
                                  height |-> ReadView(workwindow, windows).height]

\* C4: for a non-empty title T other than "Unknown" that no enumerated window matches,
\* focusWindow, resizeWindow and repositionWindow return success:false with
\* "Could not find window with title: T", and nothing is focused, resized or
\* moved.
C4_MissingWindowFails ==
  ( /\ scall.op \in WindowOps
    /\ scall.title # UnknownTitle /\ scall.title # <<>>
    /\ AnyTier(scall.title) = {} )
  => /\ ~sret.success
     /\ sret.text = "Could not find window with title" /\ sret.arg = scall.title
     /\ Mutations = {}
     /\ workwindow = 0 /\ foreground = 0

C10_EmptyWindowList ==
  windows = <<>> =>
    /\ scall.op = "focusWindow"
         => /\ ~sret.success /\ ~sret.hasData
            /\ sret.text = "Could not find window with title"
    /\ scall.op = "getActiveWindow"
         => /\ sret.success /\ sret.hasData
            /\ sret.data = WindowData({"title", "className", "handle", "position", "size"},
                                      UnknownTitle, "Unknown", 0, 0, 0, 0, 0, FALSE, FALSE)
    /\ scall.op \in {"focusWindow", "getActiveWindow"}
         => workwindow = 0 /\ Mutations = {}

C10_Witness ==
  /\ windows = <<>> /\ scall.op = "getActiveWindow"
  /\ sret.success /\ sret.data.title = UnknownTitle /\ workwindow = 0

-----------------------------------------------------------------------------
(* Properties of construction, metrics, screenshots and window-state requests *)

ProviderOps == {"getScreenSize", "getAllDisplays", "getScreenshot"}

\* C11: no error crosses the boundary of the screen provider: constructing it
\* never throws, and every call of getScreenSize, getAllDisplays,
\* getScreenshot, getActiveWindow, focusWindow, resizeWindow and
\* repositionWindow returns an envelope, whatever the backend throws.
C11_NoErrorCrossesBoundary ==
  /\ dcall.op = "constructor" => ~dret.raised /\ binding \in Built
  /\ dcall.op \in ProviderOps => ~dret.raised /\ dret.envelope # NoDisplayEnvelope
  /\ scall.op \in WindowOps => sret # NoScreenEnvelope

\* the sharp import and the capture succeeded and the pipeline threw
TookFallback ==
  /\ dcall.op = "getScreenshot" /\ dcall.load = "ok"
  /\ dcall.capture.outcome = "ok" /\ dcall.pipeline.outcome = "throws"

\* size is width x height scaled down uniformly to fit within 1280 on both
\* axes, up to the rounding of each axis; unchanged when it already fits
IsScaledToFit(size, width, height) ==
  IF width <= 1280 /\ height <= 1280
    THEN size.width = width /\ size.height = height
    ELSE /\ size.width <= 1280 /\ size.height <= 1280
         /\ Max(size.width, size.height) = 1280
         /\ size.width * height - size.height * width <= Max(width, height)
         /\ size.height * width - size.width * height <= Max(width, height)

\* C12 as stated: when the pipeline raises, getScreenshot still succeeds with
\* a non-empty base64 screenshot and data.width/height are the captured
\* dimensions scaled to fit within 1280, for full-screen and region captures alike.
C12_FallbackScalesCapture ==
  TookFallback =>
    /\ ~dret.raised /\ dret.envelope.success
    /\ dret.envelope.image.base64Length > 0
    /\ IsScaledToFit(dret.envelope.data, dcall.capture.width, dcall.capture.height)

\* C12 amended: when the pipeline raises, getScreenshot succeeds with the
\* base64 of the raw capture buffer; a full-screen capture reports the captured
\* dimensions scaled to fit within 1280, a region capture reports the
\* requested region's dimensions, unscaled.
C12_FallbackScalesFullScreen ==
  TookFallback =>
    /\ ~dret.raised /\ dret.envelope.success /\ dret.envelope.hasData
    /\ dret.envelope.image.base64Length = Base64Length(dcall.capture.bytes)
    /\ dret.envelope.image.base64Length > 0
    /\ ~dcall.options.hasRegion
         => IsScaledToFit(dret.envelope.data, dcall.capture.width, dcall.capture.height)
    /\ dcall.options.hasRegion
         => /\ dret.envelope.data.width = dcall.options.region.width
            /\ dret.envelope.data.height = dcall.options.region.height

C12_Witness ==
  /\ TookFallback /\ ~dcall.options.hasRegion
  /\ dcall.capture.width = 1920 /\ dcall.capture.height = 1080
  /\ dret.envelope.success
  /\ dret.envelope.data.width = 1280 /\ dret.envelope.data.height = 720

\* C13: a successful full-screen getScreenshot reports in data.width and
\* data.height the dimensions of the image the pipeline produced (1280x720
\* for a 1920x1080 capture), not those of the raw capture.
C13_FullScreenReportsOutputSize ==
  ( /\ dcall.op = "getScreenshot" /\ ~dcall.options.hasRegion
    /\ dret.envelope.success /\ dret.envelope.image.path = "sharp" )
    => /\ dret.envelope.data.width = dret.envelope.image.width
       /\ dret.envelope.data.height = dret.envelope.image.height

\* C14: when a region is requested, a successful getScreenshot reports the
\* requested region's width and height, whatever the size of the raw capture
\* and on the normal and the fallback path alike.
C14_RegionReportsRegionSize ==
  ( /\ dcall.op = "getScreenshot" /\ dcall.options.hasRegion
    /\ dret.envelope.success )
    => /\ dret.envelope.hasData
       /\ dret.envelope.data.width = dcall.options.region.width
       /\ dret.envelope.data.height = dcall.options.region.height

C14_Witness ==
  /\ dcall.op = "getScreenshot" /\ dcall.options.hasRegion
  /\ dcall.options.region.width = 300 /\ dcall.capture.width = 301
  /\ dret.envelope.success /\ dret.envelope.image.path = "sharp"
  /\ dret.envelope.data.width = 300 /\ dret.envelope.data.height = 400

\* C15: getScreenshot returns success:false exactly when the capture stage
\* fails, with the backend's error text in the message; every failure after a
\* successful capture still yields success:true.
C15_FailsIffCaptureFails ==
  dcall.op = "getScreenshot" =>
    /\ ~dret.raised
    /\ ~dret.envelope.success <=> dcall.capture.outcome = "throws"
    /\ ~dret.envelope.success
         => /\ dret.envelope.text = "Failed to capture screenshot"
            /\ dret.envelope.cause = "capture error"

\* the value a metric read yields in the current call
MetricRead(nIndex) == IF binding = "dummy" THEN 0 ELSE dcall.native[nIndex]
MetricRaises == binding = "native" /\ dcall.throws

C17_DegradedForever ==
  [][ /\ (dcall'.op = "constructor" /\ dcall'.load = "throws")
         => ~dret'.raised /\ binding' = "dummy"
      /\ binding = "dummy"
         => /\ binding' = "dummy"
            /\ dcall'.op \in {"getScreenSize", "getAllDisplays"}
                 => /\ ~dret'.raised /\ ~dret'.envelope.success
                    /\ ~dret'.envelope.hasData
                    /\ dret'.envelope.text \in {"Failed to get screen size using koffi",
                                                "Failed to get display information using koffi"}
                    /\ dret'.envelope.cause # "" ]_vars

C17_Witness ==
  /\ binding = "dummy" /\ ncmd = MaxCommands /\ pending = <<>>
  /\ dcall.op = "getAllDisplays"
  /\ dcall.native.SM_CXSCREEN # 0 /\ dcall.native.SM_CYSCREEN # 0
  /\ dcall.native.SM_CMONITORS # 0
  /\ ~dret.envelope.success

StateRequests == {"minimize_window", "restore_window"}

NotSupportedText ==
  IF dcall.op = "minimize_window" THEN "Minimize window operation is not supported"
  ELSE "Restore window operation is not supported"

\* C18 as stated: every minimize_window and restore_window request, for every
\* argument value and provider state, is answered with a success:false
\* envelope saying the operation is not supported, and calls no provider.
C18_AlwaysNotSupported ==
  dcall.op \in StateRequests =>
    /\ ~dret.raised /\ ~dret.isError
    /\ ~dret.envelope.success /\ dret.envelope.text = NotSupportedText
    /\ dret.calls = <<>>

\* C18 amended: a minimize_window or restore_window request whose title is a
\* string is answered, in every provider state, with a success:false envelope
\* saying the operation is not supported; one whose title is not a string is
\* answered with the handler's error response "Invalid window title
\* argument"; neither calls a provider.
C18_NotSupportedForStringTitle ==
  dcall.op \in StateRequests =>
    /\ ~dret.raised /\ dret.calls = <<>>
    /\ TypeofString(dcall.title)
         => /\ ~dret.isError /\ ~dret.envelope.success /\ ~dret.envelope.hasData
            /\ dret.envelope.text = NotSupportedText
    /\ ~TypeofString(dcall.title)
         => /\ dret.isError
            /\ dret.envelope.cause = "Invalid window title argument"

C18_Witness ==
  /\ dcall.op = "restore_window" /\ dcall.title = NullV /\ binding = "none"
  /\ dret.isError /\ dret.calls = <<>>

\* C19: getAllDisplays fails whenever the monitor count reads zero; a zero in
\* any other metric alone does not make it fail.
C19_OnlyMonitorCountFails ==
  dcall.op = "getAllDisplays" =>
    /\ ~dret.raised
    /\ MetricRead("SM_CMONITORS") = 0 => ~dret.envelope.success
    /\ (MetricRead("SM_CMONITORS") # 0 /\ ~MetricRaises)
         => /\ dret.envelope.success /\ dret.envelope.hasData
            /\ dret.envelope.data.monitorCount = MetricRead("SM_CMONITORS")

C19_Witness ==
  /\ dcall.op = "getAllDisplays" /\ binding = "native" /\ ~dcall.throws
  /\ dcall.native.SM_CMONITORS = 2
  /\ dcall.native.SM_CXSCREEN = 0 /\ dcall.native.SM_CYSCREEN = 0
  /\ dcall.native.SM_CXVIRTUALSCREEN = 0 /\ dcall.native.SM_CYVIRTUALSCREEN = 0
  /\ dret.envelope.success

-----------------------------------------------------------------------------
(* Properties of window resolution, partial updates and interleaving *)

\* the enumerated window with handle h
WindowOf(h) == CHOOSE w \in Range(windows) : w.handle = h

\* the view rectangle passes the geometry validation
Acceptable(w) ==
  /\ w.viewOk
  /\ w.view.width > 0 /\ w.view.height > 0
  /\ w.view.x > -10000 /\ w.view.y > -10000

\* the message of an envelope: the fixed text, the title and the two suffixes
Message(e) == <<e.text, e.arg, e.fgTag, e.openTag>>

\* the desktop on which window h really has the rectangle {0,0,800,600}
WithRealView(wins, h) ==
  [i \in DOMAIN wins |->
     IF wins[i].handle = h
       THEN [wins[i] EXCEPT !.view = [x |-> 0, y |-> 0, width |-> 800, height |-> 600],
                            !.viewOk = TRUE]
       ELSE wins[i]]

\* the operation of the last call, made on the desktop wins
SameCallOn(wins, nat) ==
  IF scall.op = "focusWindow" THEN focusWindow(scall.title, nat, wins, 0, 0)
  ELSE getActiveWindow(nat, wins, 0, 0)

\* C21: the message of a successful focusWindow or getActiveWindow response
\* tells a window resolved with its real view rectangle from a window
\* returned with the fallback rectangle {0,0,800,600}: the message of a
\* fallback response differs from the message the same call gives when the
\* window really has that rectangle.
C21_MessageTellsFallback ==
  ( /\ scall.op \in {"focusWindow", "getActiveWindow"}
    /\ sret.success /\ sret.data.handle # 0
    /\ ~Acceptable(WindowOf(sret.data.handle)) )
    => \A nat \in Faults :
         \A o \in {SameCallOn(WithRealView(windows, sret.data.handle), nat)} :
           (o.envelope.success /\ o.envelope.data = sret.data)
             => Message(o.envelope) # Message(sret)

\* the handles of the getView calls of the last operation, in order
ViewQueries ==
  LET calls == SelectSeq(slog, LAMBDA c : c.fn = "getView")
  IN  [i \in DOMAIN calls |-> calls[i].h]

LastTarget == IF scall.op = "focusWindow" THEN Given(scall.title) ELSE NotGiven

\* C22: findSuitableWindow examines the candidates in enumeration order and
\* returns the first whose view rectangle has width > 0, height > 0,
\* x > -10000 and y > -10000; a candidate whose view query throws is skipped,
\* and no view query is made on a candidate after the accepted one.
C22_FirstAcceptableCandidate ==
  ( /\ scall.op \in {"focusWindow", "getActiveWindow"}
    /\ sret.success /\ sret.text \in {"Focused window", "Active window"} )
    => \A c \in {Candidates(LastTarget, windows)} :
         (\E i \in DOMAIN c : Acceptable(c[i]))
           => \E k \in DOMAIN c :
                /\ c[k].handle = sret.data.handle
                /\ Acceptable(c[k])
                /\ \A j \in 1..(k - 1) : ~Acceptable(c[j])
                /\ sret.data.position = [x |-> c[k].view.x, y |-> c[k].view.y]
                /\ sret.data.size = [width |-> c[k].view.width, height |-> c[k].view.height]
                /\ ViewQueries = [i \in 1..k |-> c[i].handle]

C22_Witness ==
  /\ scall.op = "focusWindow" /\ scall.title = TExact /\ sret.success
  /\ Len(windows) = 2
  /\ windows[1].title = TExact /\ ~windows[1].viewOk
  /\ windows[2].title = TExact /\ Acceptable(windows[2])
  /\ sret.data.handle = 2 /\ ViewQueries = <<1, 2>>

\* C23: when the candidate set is not empty and no candidate passes the
\* geometry validation, findSuitableWindow returns the first candidate with
\* the rectangle {x:0, y:0, width:800, height:600}; it returns null only when
\* there is no window, no titled window, no match for a required target, or
\* the enumeration throws.
C23_FallbackOrNull ==
  scall.op = "focusWindow" =>
    \A c \in {Candidates(Given(scall.title), windows)} :
      /\ \A enum \in {"ok", "throws"} :
           \A r \in {findSuitableWindow(Given(scall.title), enum, windows)} :
             /\ ~r.found
                  <=> \/ enum = "throws" \/ windows = <<>> \/ Titled = {}
                      \/ /\ scall.title # <<>> /\ scall.title # UnknownTitle
                         /\ AnyTier(scall.title) = {}
             /\ (r.found /\ \A i \in DOMAIN c : ~Acceptable(c[i]))
                  => /\ c # <<>> /\ r.window = c[1]
                     /\ r.viewInfo = [x |-> 0, y |-> 0, width |-> 800, height |-> 600]
      /\ ( /\ sret.success /\ sret.text = "Focused window"
           /\ \A i \in DOMAIN c : ~Acceptable(c[i]) )
           => /\ c # <<>> /\ sret.data.handle = c[1].handle
              /\ sret.data.position = [x |-> 0, y |-> 0]
              /\ sret.data.size = [width |-> 800, height |-> 600]

C23_Witness ==
  /\ scall.op = "focusWindow" /\ scall.title = TExact /\ sret.success
  /\ Len(windows) = 2
  /\ windows[1].title = TExact /\ windows[1].viewOk /\ windows[1].view.width = 0
  /\ windows[2].title = TExact /\ ~windows[2].viewOk
  /\ sret.data.handle = 1 /\ sret.data.size = [width |-> 800, height |-> 600]
  /\ ViewQueries = <<1, 2>>

\* the view the window with handle h has before the step, zero where it
\* cannot be read
CurrentView(h) ==
  LET w == WindowOf(h) IN IF w.viewOk THEN w.view ELSE [x |-> 0, y |-> 0, width |-> 0, height |-> 0]

\* C24: the view repositionWindow(title, x, y) applies to the window has the
\* requested x and y and the window's current width and height; the view
\* resizeWindow(title, w, h) applies has the requested width and height and
\* the window's current x and y; the fields not requested are zero when the
\* current view cannot be read.
C24_PartialUpdate ==
  [][ ( /\ scall = NoSCall /\ scall'.op \in {"resizeWindow", "repositionWindow"}
        /\ Len(pending') > Len(pending) )
      => \A cont \in {pending'[Len(pending')]} :
           \A cur \in {CurrentView(cont.handle)} :
             \E i \in DOMAIN slog' :
               /\ slog'[i].fn = "setView" /\ slog'[i].h = cont.handle
               /\ slog'[i].view =
                    IF scall'.op = "resizeWindow"
                      THEN [x |-> cur.x, y |-> cur.y, width |-> scall'.a, height |-> scall'.b]
                      ELSE [x |-> scall'.a, y |-> scall'.b,
                            width |-> cur.width, height |-> cur.height] ]_vars

\* C25: on every successful getAllDisplays data.monitors has exactly
\* data.monitorCount entries with indices 0..monitorCount-1, only index 0 is
\* primary, the entry at index 1 has bounds {x: primaryWidth, y: 0,
\* width: virtualWidth - primaryWidth, height: virtualHeight}, and every entry
\* at index 2 or more has zeroed bounds and work area.
C25_MonitorsArray ==
  (dcall.op = "getAllDisplays" /\ dret.envelope.success) =>
    \A d \in {dret.envelope.data} :
      /\ Len(d.monitors) = d.monitorCount
      /\ \A i \in DOMAIN d.monitors :
           /\ d.monitors[i].index = i - 1
           /\ d.monitors[i].isPrimary <=> i = 1
           /\ i = 2 => d.monitors[i].bounds =
                         [x |-> d.width, y |-> 0,
                          width |-> d.virtualScreen.width - d.width,
                          height |-> d.virtualScreen.height]
           /\ i > 2 => /\ d.monitors[i].bounds = [x |-> 0, y |-> 0, width |-> 0, height |-> 0]
                       /\ d.monitors[i].workArea = [x |-> 0, y |-> 0, width |-> 0, height |-> 0]

\* C26: when PNG output is requested the encoder is given the requested
\* compressionLevel for every level in 0..9, and level 6 when none is
\* requested; when JPEG output is requested it is given the requested quality
\* for every quality in 1..100.
C26_EncoderGetsRequest ==
  ( /\ dcall.op = "getScreenshot" /\ dret.envelope.success
    /\ dret.envelope.image.path = "sharp" )
    => \A o \in {dcall.options}, e \in {dret.envelope.image.encoder} :
         /\ o.format = StrV("png")
              => /\ e.format = "png"
                 /\ e.compressionLevel =
                      IF o.compressionLevel = UndefV THEN 6 ELSE o.compressionLevel.n
         /\ (o.format = StrV("jpeg") /\ o.quality # UndefV)
              => e.format = "jpeg" /\ e.quality = o.quality.n

\* C27: with one request handled at a time, every backend mutation
\* (work-window set, setForeground, setView) of a command is made while that
\* command is dispatched, before the next command's first mutation: the
\* continuation resize and reposition leave waiting mutates nothing when its
\* delay ends, and the next request is accepted and run while it waits.
C27_MutationsWithinDispatch ==
  [][ /\ <<windows, workwindow, foreground>>' # <<windows, workwindow, foreground>>
         => /\ scall = NoSCall /\ scall' # NoSCall
            /\ Mutations' # {}
      /\ (pending # <<>> /\ pending' = Tail(pending))
         => UNCHANGED <<windows, workwindow, foreground, slog>> ]_vars

C27_Witness ==
  /\ ncmd = 2 /\ scall.op = "focusWindow" /\ sret.success
  /\ pending # <<>> /\ pending[1].op = "resize"
  /\ Mutations # {} /\ workwindow # pending[1].handle

\* C28: the view re-read and the foreground check after the settle delay
\* observe the window the setView was applied to: no command dispatched after
\* the resize or reposition envelope was returned retargets the provider's
\* work window while the continuation waits.
C28_NoRetargetWhileWaiting ==
  [][ (pending # <<>> /\ scall = NoSCall /\ scall' # NoSCall)
        => workwindow' = workwindow ]_vars

====
